---- MODULE Spec2Model ----
(***************************************************************************)
(* Audio/video-to-text transcription app (src/app.py).                     *)
(*                                                                         *)
(* Three specifications over one set of variables:                         *)
(*   Spec       - the two transcription flows of main(), run by            *)
(*                overlapping sessions that share one working directory;   *)
(*   SpecFormat - format_transcription applied to bounded chunk lists;     *)
(*   SpecDedupe - remove_repeated_words applied to bounded strings.        *)
(*                                                                         *)
(* A Python str is modelled as a sequence of one-character strings.        *)
(***************************************************************************)
EXTENDS Integers, Sequences, FiniteSets, TLC

VARIABLES fs, run, chunks_in, fmt_out, text_in, dd_out

vars == <<fs, run, chunks_in, fmt_out, text_in, dd_out>>

-----------------------------------------------------------------------------
(* Bounds *)

MaxTotalLen == 3
MaxChunks == 3
MaxStrLen == 5
NumRuns == 2
NumTmpNames == 2

-----------------------------------------------------------------------------
(* Python str helpers *)

SP == " "
NL == "\n"

\* The characters str.strip() and str.split() treat as whitespace.
Whitespace == {SP, NL}

RECURSIVE LStrip(_)
LStrip(s) ==
    IF s = <<>> THEN <<>>
    ELSE IF Head(s) \in Whitespace THEN LStrip(Tail(s)) ELSE s

RECURSIVE RStrip(_)
RStrip(s) ==
    IF s = <<>> THEN <<>>
    ELSE IF s[Len(s)] \in Whitespace THEN RStrip(SubSeq(s, 1, Len(s) - 1)) ELSE s

\* str.strip()
Strip(s) == RStrip(LStrip(s))

\* str.split(): the maximal runs of non-whitespace characters, in order.
RECURSIVE SplitFrom(_, _, _)
SplitFrom(s, cur, acc) ==
    IF s = <<>> THEN (IF cur = <<>> THEN acc ELSE Append(acc, cur))
    ELSE IF Head(s) \in Whitespace
         THEN SplitFrom(Tail(s), <<>>, IF cur = <<>> THEN acc ELSE Append(acc, cur))
         ELSE SplitFrom(Tail(s), Append(cur, Head(s)), acc)

Split(s) == SplitFrom(s, <<>>, <<>>)

\* ' '.join(words)
RECURSIVE Join(_)
Join(words) ==
    IF words = <<>> THEN <<>>
    ELSE IF Len(words) = 1 THEN words[1]
    ELSE words[1] \o <<SP>> \o Join(Tail(words))

Digits == <<"0", "1", "2", "3", "4", "5", "6", "7", "8", "9">>

RECURSIVE IntChars(_)
IntChars(n) ==
    IF n < 10 THEN <<Digits[n + 1]>>
    ELSE IntChars(n \div 10) \o <<Digits[(n % 10) + 1]>>

\* f"{t:.2f}" for a time t given in hundredths of a second (Whisper's
\* timestamps are multiples of 0.02 s, which two decimals print exactly).
Fmt2f(h) ==
    IntChars(h \div 100) \o <<".">> \o <<Digits[((h \div 10) % 10) + 1]>>
                         \o <<Digits[(h % 10) + 1]>>

-----------------------------------------------------------------------------
(* format_transcription *)

\* A timestamp is a tuple of times; <<>> stands for None (both are falsy in
\* "if timestamps:"), and NoneTime for a None end time.
NoneTime == -1

\* chunk.get("timestamp", None): None, a (start, end) pair, or the pair with
\* end None that the recognizer gives a chunk cut off by the end of the audio.
Timestamps == {<<>>, <<0, 150>>, <<150, NoneTime>>}

NoTimestampTag == <<"[", "N", "o", " ", "T", "i", "m", "e", "s", "t", "a", "m", "p", "]", " ">>

\* One line of formatted_text for a chunk that has a timestamp pair.
TimestampLine(ts, text) ==
    <<"[">> \o Fmt2f(ts[1]) \o <<" ", "-", " ">> \o Fmt2f(ts[2]) \o <<"]", " ">>
            \o Strip(text) \o <<NL>>

\* NoTimestampLine without its line break.
NoTimestampLineUnbroken(text) == NoTimestampTag \o Strip(text)

NoTimestampLine(text) == NoTimestampTag \o Strip(text) \o <<NL>>

\* Accepts comparing the untrimmed text.
AcceptsUntrimmed(text, previous_text) == text # previous_text

\* "if text.strip() != previous_text"
Accepts(text, previous_text) == Strip(text) # previous_text

\* FullTextAfter without the separating space.
FullTextAfterNoSpace(full_text, text) == full_text \o Strip(text)

\* "full_text += text.strip() + ' '"
FullTextAfter(full_text, text) == full_text \o Strip(text) \o <<SP>>

\* The loop of format_transcription from chunk i on. appended records, in
\* order, each text the loop adds to full_text.
RECURSIVE FormatLoop(_, _, _, _, _, _)
FormatLoop(chunks, i, formatted_text, full_text, previous_text, appended) ==
    IF i > Len(chunks)
    THEN [raised |-> FALSE,
          formatted |-> Strip(formatted_text),
          full |-> Strip(full_text),
          appended |-> appended]
    ELSE LET text == chunks[i].text
             timestamps == chunks[i].timestamp
             accept == Accepts(text, previous_text)
         IN IF timestamps # <<>> /\ timestamps[2] = NoneTime
            THEN [raised |-> TRUE, formatted |-> <<>>, full |-> <<>>,
                  appended |-> appended]
            ELSE FormatLoop(
                   chunks, i + 1,
                   formatted_text \o (IF timestamps # <<>>
                                      THEN TimestampLine(timestamps, text)
                                      ELSE NoTimestampLine(text)),
                   IF accept THEN FullTextAfter(full_text, text) ELSE full_text,
                   IF accept THEN Strip(text) ELSE previous_text,
                   IF accept THEN Append(appended, Strip(text)) ELSE appended)

format_transcription(chunks) == FormatLoop(chunks, 1, <<>>, <<>>, <<>>, <<>>)

-----------------------------------------------------------------------------
(* remove_repeated_words *)

\* CleanLoop as it would be if a repeated word were deleted from the list
\* being iterated: the word after a deleted one is passed over unexamined.
RECURSIVE CleanLoopSkip(_, _, _)
CleanLoopSkip(words, i, cleaned_words) ==
    IF i > Len(words) THEN cleaned_words
    ELSE IF i = 1 \/ words[i] # words[i - 1]
         THEN CleanLoopSkip(words, i + 1, Append(cleaned_words, words[i]))
         ELSE CleanLoopSkip(words, i + 2,
                            IF i + 1 <= Len(words)
                            THEN Append(cleaned_words, words[i + 1])
                            ELSE cleaned_words)

\* CleanLoop as it would be with the comparison written words[i] != words[i].
RECURSIVE CleanLoopSelf(_, _, _)
CleanLoopSelf(words, i, cleaned_words) ==
    IF i > Len(words) THEN cleaned_words
    ELSE CleanLoopSelf(words, i + 1,
                       IF i = 1 \/ words[i] # words[i]
                       THEN Append(cleaned_words, words[i])
                       ELSE cleaned_words)

RECURSIVE CleanLoop(_, _, _)
CleanLoop(words, i, cleaned_words) ==
    IF i > Len(words) THEN cleaned_words
    ELSE CleanLoop(words, i + 1,
                   IF i = 1 \/ words[i] # words[i - 1]
                   THEN Append(cleaned_words, words[i])
                   ELSE cleaned_words)

remove_repeated_words(text) == Join(CleanLoop(Split(text), 1, <<>>))

-----------------------------------------------------------------------------
(* Spec: the two flows of main(), run by overlapping sessions *)

\* One run of a transcription flow per session; the sessions are served by one
\* process, so they share its working directory and its temporary directory.
Runs == 1..NumRuns

\* The names tempfile.NamedTemporaryFile can draw.
TmpNames == <<"tmp_a", "tmp_b", "tmp_c", "tmp_d">>
TmpPaths == {TmpNames[i] : i \in 1..NumTmpNames}

\* download_audio_youtube's default output_path, and wav_file.
TempAudioMp4 == "temp_audio.mp4"
TempAudioWav == "temp_audio.wav"

Paths == TmpPaths \cup {TempAudioMp4, TempAudioWav}

NoPath == "None"

\* fs[p] is the run whose write made the file now at path p, NoFile if there
\* is no file at p.
NoFile == 0

\* What pipe(path) can return: a chunk list of the recognizer.
PipeResults ==
    {<<>>} \cup {<<[text |-> <<SP, "a">>, timestamp |-> ts]>> : ts \in Timestamps}

IdleRun ==
    [pc |-> "idle", mode |-> "none",
     temp_file_path |-> NoPath, audio_file |-> NoPath, wav_file |-> NoPath,
     transcription |-> <<>>,
     pipe_called |-> FALSE, normalized |-> FALSE, delivered |-> FALSE,
     touched |-> {}, outcome |-> "none"]

PipelineIdle ==
    /\ fs = [p \in Paths |-> NoFile]
    /\ run = [r \in Runs |-> IdleRun]

Init ==
    /\ PipelineIdle
    /\ chunks_in = <<>>
    /\ fmt_out = <<>>
    /\ text_in = <<>>
    /\ dd_out = <<>>

\* The run ends with an exception: in the upload flow it leaves main(), in
\* the YouTube flow "except Exception" reports it. Either way no later
\* statement of the flow runs.
Raise(r, failure) == [run[r] EXCEPT !.pc = "done", !.outcome = failure]

\* "Transcribe Audio" clicked with a file uploaded.
StartUpload(r) ==
    /\ run[r].pc = "idle"
    /\ run' = [run EXCEPT ![r].pc = "write_temp", ![r].mode = "upload"]
    /\ UNCHANGED <<fs, chunks_in, fmt_out, text_in, dd_out>>

\* NamedTemporaryFile(delete=False) creates a file under a name no existing
\* file has; the upload is written to it.
WriteTemp(r) ==
    /\ run[r].pc = "write_temp"
    /\ \E p \in TmpPaths :
          /\ fs[p] = NoFile
          /\ fs' = [fs EXCEPT ![p] = r]
          /\ run' = [run EXCEPT ![r].pc = "pipe",
                                ![r].temp_file_path = p,
                                ![r].touched = @ \cup {p}]
    /\ UNCHANGED <<chunks_in, fmt_out, text_in, dd_out>>

\* transcription = pipe(path): raises when there is no file at path, and may
\* raise on any file; otherwise returns a chunk list.
PipeCall(r, path) ==
    /\ \/ run' = [run EXCEPT ![r] = [Raise(r, "TranscriptionFailure") EXCEPT
                                        !.pipe_called = TRUE,
                                        !.touched = @ \cup {path}]]
       \/ /\ fs[path] # NoFile
          /\ \E chunks \in PipeResults :
                run' = [run EXCEPT ![r].pc = "format",
                                   ![r].transcription = chunks,
                                   ![r].pipe_called = TRUE,
                                   ![r].touched = @ \cup {path}]
    /\ UNCHANGED <<fs, chunks_in, fmt_out, text_in, dd_out>>

\* format_transcription(transcription), then both transcripts are shown.
FormatAndShow(r, next) ==
    /\ LET result == format_transcription(run[r].transcription)
       IN IF result.raised
          THEN run' = [run EXCEPT ![r] = Raise(r, "NormalizationFailure")]
          ELSE run' = [run EXCEPT ![r].pc = next,
                                  ![r].normalized = TRUE,
                                  ![r].delivered = TRUE]
    /\ UNCHANGED <<fs, chunks_in, fmt_out, text_in, dd_out>>

\* os.remove(path): raises FileNotFoundError when there is no file at path.
OsRemove(r, path, next, outcome) ==
    /\ IF fs[path] = NoFile
       THEN /\ run' = [run EXCEPT ![r] = [Raise(r, "CleanupFailure") EXCEPT
                                             !.touched = @ \cup {path}]]
            /\ fs' = fs
       ELSE /\ run' = [run EXCEPT ![r].pc = next,
                                  ![r].outcome = outcome,
                                  ![r].touched = @ \cup {path}]
            /\ fs' = [fs EXCEPT ![path] = NoFile]
    /\ UNCHANGED <<chunks_in, fmt_out, text_in, dd_out>>

PipeUpload(r) ==
    /\ run[r].pc = "pipe"
    /\ run[r].mode = "upload"
    /\ PipeCall(r, run[r].temp_file_path)

FormatUpload(r) ==
    /\ run[r].pc = "format"
    /\ run[r].mode = "upload"
    /\ FormatAndShow(r, "remove_temp")

RemoveTemp(r) ==
    /\ run[r].pc = "remove_temp"
    /\ OsRemove(r, run[r].temp_file_path, "done", "ok")

\* "Transcribe Video" clicked with a link entered.
StartYoutube(r) ==
    /\ run[r].pc = "idle"
    /\ run' = [run EXCEPT ![r].pc = "download", ![r].mode = "youtube"]
    /\ UNCHANGED <<fs, chunks_in, fmt_out, text_in, dd_out>>

\* audio_file = download_audio_youtube(video_url): None after a DownloadError,
\* which ends the flow at "if audio_file:"; otherwise there is a file at
\* output_path, written by this call or, if one was there, possibly left as
\* it was.
Download(r) ==
    /\ run[r].pc = "download"
    /\ \/ /\ run' = [run EXCEPT ![r] = Raise(r, "AcquisitionFailure")]
          /\ fs' = fs
       \/ /\ \E owner \in {r, fs[TempAudioMp4]} :
                /\ owner # NoFile
                /\ fs' = [fs EXCEPT ![TempAudioMp4] = owner]
          /\ run' = [run EXCEPT ![r].pc = "open_clip",
                                ![r].audio_file = TempAudioMp4,
                                ![r].touched = @ \cup {TempAudioMp4}]
    /\ UNCHANGED <<chunks_in, fmt_out, text_in, dd_out>>

\* audio_clip = AudioFileClip(audio_file): raises when there is no file at
\* audio_file, and may raise on a file it cannot decode.
OpenClip(r) ==
    /\ run[r].pc = "open_clip"
    /\ \/ run' = [run EXCEPT ![r] = [Raise(r, "AcquisitionFailure") EXCEPT
                                        !.touched = @ \cup {run[r].audio_file}]]
       \/ /\ fs[run[r].audio_file] # NoFile
          /\ run' = [run EXCEPT ![r].pc = "write_wav",
                                ![r].touched = @ \cup {run[r].audio_file}]
    /\ UNCHANGED <<fs, chunks_in, fmt_out, text_in, dd_out>>

\* wav_file = "temp_audio.wav"; audio_clip.write_audiofile(wav_file, ...):
\* writes the file at wav_file, replacing one that is there; when it raises,
\* the file may or may not have been written.
WriteWav(r) ==
    /\ run[r].pc = "write_wav"
    /\ \/ /\ fs' = [fs EXCEPT ![TempAudioWav] = r]
          /\ run' = [run EXCEPT ![r].pc = "pipe",
                                ![r].wav_file = TempAudioWav,
                                ![r].touched = @ \cup {TempAudioWav}]
       \/ /\ \E written \in BOOLEAN :
                fs' = IF written THEN [fs EXCEPT ![TempAudioWav] = r] ELSE fs
          /\ run' = [run EXCEPT ![r] = [Raise(r, "AcquisitionFailure") EXCEPT
                                           !.wav_file = TempAudioWav,
                                           !.touched = @ \cup {TempAudioWav}]]
    /\ UNCHANGED <<chunks_in, fmt_out, text_in, dd_out>>

PipeYoutube(r) ==
    /\ run[r].pc = "pipe"
    /\ run[r].mode = "youtube"
    /\ PipeCall(r, run[r].wav_file)

FormatYoutube(r) ==
    /\ run[r].pc = "format"
    /\ run[r].mode = "youtube"
    /\ FormatAndShow(r, "remove_audio")

RemoveAudio(r) ==
    /\ run[r].pc = "remove_audio"
    /\ OsRemove(r, run[r].audio_file, "remove_wav", "none")

RemoveWav(r) ==
    /\ run[r].pc = "remove_wav"
    /\ OsRemove(r, run[r].wav_file, "done", "ok")

Next ==
    \E r \in Runs :
        \/ StartUpload(r)
        \/ WriteTemp(r)
        \/ PipeUpload(r)
        \/ FormatUpload(r)
        \/ RemoveTemp(r)
        \/ StartYoutube(r)
        \/ Download(r)
        \/ OpenClip(r)
        \/ WriteWav(r)
        \/ PipeYoutube(r)
        \/ FormatYoutube(r)
        \/ RemoveAudio(r)
        \/ RemoveWav(r)

Spec == Init /\ [][Next]_vars

-----------------------------------------------------------------------------
(* Properties of the flows *)

Done(r) == run[r].pc = "done"

InFlight(r) == run[r].pc \notin {"idle", "done"}

\* The paths at which the file now there was written by run r.
OwnFiles(r) == {p \in Paths : fs[p] = r}

\* C1: a run that got past acquisition has, when it ends, whether it
\* succeeded or the Transcriber or a later step raised, left none of the
\* files it created on disk.
C1_NoFileLeftOnAnyExit ==
    \A r \in Runs : (Done(r) /\ run[r].pipe_called) => OwnFiles(r) = {}

\* C2: a run whose acquisition, transcription and normalization all succeeded
\* has, once it has returned, left none of the files it created on disk.
C2_SuccessLeavesNoFile ==
    \A r \in Runs : (Done(r) /\ run[r].normalized) => OwnFiles(r) = {}

\* C3: a YouTube run whose acquisition failed, in the download or in the
\* decoding to WAV, has left none of the files it created on disk.
C3_AcquisitionFailureLeavesNoFile ==
    \A r \in Runs :
        (Done(r) /\ run[r].mode = "youtube" /\ run[r].outcome = "AcquisitionFailure")
            => OwnFiles(r) = {}

\* C4: two runs in flight at the same time have written, read and deleted
\* disjoint sets of paths.
C4_RunsShareNoPath ==
    \A r1, r2 \in Runs :
        (r1 # r2 /\ InFlight(r1) /\ InFlight(r2))
            => run[r1].touched \cap run[r2].touched = {}

\* C5: after an acquisition failure the Transcriber was not called, after a
\* Transcriber failure format_transcription did not return, and a run that
\* ended in any failure has delivered no transcript.
C5_FailureHalts ==
    \A r \in Runs :
        /\ run[r].outcome = "AcquisitionFailure" => ~run[r].pipe_called
        /\ run[r].outcome = "TranscriptionFailure" => ~run[r].normalized
        /\ run[r].outcome \notin {"none", "ok"} => ~run[r].delivered

-----------------------------------------------------------------------------
(* SpecFormat: the recognizer emits a chunk list, format_transcription runs *)

ChunkChars == {"a", SP, NL}

StringsOver(chars, n) == UNION {[1..k -> chars] : k \in 0..n}

RECURSIVE TotalLen(_)
TotalLen(chunks) ==
    IF chunks = <<>> THEN 0 ELSE Len(Head(chunks).text) + TotalLen(Tail(chunks))

FormatInit ==
    /\ chunks_in = <<>>
    /\ fmt_out = <<>>
    /\ text_in = <<>>
    /\ dd_out = <<>>
    /\ PipelineIdle

\* One more chunk of the recognizer's output, transcription['chunks'].
EmitChunk ==
    /\ fmt_out = <<>>
    /\ Len(chunks_in) < MaxChunks
    /\ \E text \in StringsOver(ChunkChars, MaxTotalLen - TotalLen(chunks_in)),
          timestamp \in Timestamps :
            chunks_in' = Append(chunks_in, [text |-> text, timestamp |-> timestamp])
    /\ UNCHANGED <<fs, run, fmt_out, text_in, dd_out>>

\* formatted_transcription, full_transcription = format_transcription(transcription)
Normalize ==
    /\ fmt_out = <<>>
    /\ fmt_out' = <<format_transcription(chunks_in)>>
    /\ UNCHANGED <<fs, run, chunks_in, text_in, dd_out>>

FormatNext == EmitChunk \/ Normalize

SpecFormat == FormatInit /\ [][FormatNext]_vars

-----------------------------------------------------------------------------
(* SpecDedupe: remove_repeated_words applied to a string, then to its result *)

DedupeChars == {"a", "b", SP, NL}

DedupeInit ==
    /\ text_in \in StringsOver(DedupeChars, MaxStrLen)
    /\ dd_out = <<>>
    /\ chunks_in = <<>>
    /\ fmt_out = <<>>
    /\ PipelineIdle

Clean ==
    /\ dd_out = <<>>
    /\ dd_out' = <<remove_repeated_words(text_in)>>
    /\ UNCHANGED <<fs, run, chunks_in, fmt_out, text_in>>

CleanAgain ==
    /\ Len(dd_out) = 1
    /\ dd_out' = Append(dd_out, remove_repeated_words(dd_out[1]))
    /\ UNCHANGED <<fs, run, chunks_in, fmt_out, text_in>>

DedupeNext == Clean \/ CleanAgain

SpecDedupe == DedupeInit /\ [][DedupeNext]_vars

-----------------------------------------------------------------------------
(* Properties of format_transcription *)

Returned == fmt_out # <<>> /\ ~fmt_out[1].raised

\* The lines of a string: its pieces between line breaks, none for "".
RECURSIVE LinesFrom(_, _, _)
LinesFrom(s, cur, acc) ==
    IF s = <<>> THEN Append(acc, cur)
    ELSE IF Head(s) = NL THEN LinesFrom(Tail(s), <<>>, Append(acc, cur))
         ELSE LinesFrom(Tail(s), Append(cur, Head(s)), acc)

Lines(s) == IF s = <<>> THEN <<>> ELSE LinesFrom(s, <<>>, <<>>)

RECURSIVE CountBreaks(_)
CountBreaks(s) ==
    IF s = <<>> THEN 0
    ELSE (IF Head(s) = NL THEN 1 ELSE 0) + CountBreaks(Tail(s))

RECURSIVE InteriorBreaks(_)
InteriorBreaks(chunks) ==
    IF chunks = <<>> THEN 0
    ELSE CountBreaks(Strip(Head(chunks).text)) + InteriorBreaks(Tail(chunks))

EndsWith(s, t) ==
    Len(t) <= Len(s) /\ SubSeq(s, Len(s) - Len(t) + 1, Len(s)) = t

C7_NoAdjacentEqual ==
    Returned =>
        \A i \in 1..(Len(fmt_out[1].appended) - 1) :
            Strip(fmt_out[1].appended[i]) # Strip(fmt_out[1].appended[i + 1])

\* Two adjacent chunks that differ only in surrounding whitespace were
\* formatted, and a later chunk was appended after them.
C7_Witness ==
    /\ Returned
    /\ Len(chunks_in) = 3
    /\ chunks_in[1].text # chunks_in[2].text
    /\ Strip(chunks_in[1].text) = Strip(chunks_in[2].text)
    /\ Len(fmt_out[1].appended) = 2

\* The pass the claim describes: the trimmed texts of the accepted chunks,
\* a chunk being accepted iff its trimmed text differs from the last accepted.
RECURSIVE AcceptedFrom(_, _)
AcceptedFrom(chunks, last) ==
    IF chunks = <<>> THEN <<>>
    ELSE LET t == Strip(Head(chunks).text)
         IN IF t # last THEN <<t>> \o AcceptedFrom(Tail(chunks), t)
            ELSE AcceptedFrom(Tail(chunks), last)

Accepted(chunks) == AcceptedFrom(chunks, <<>>)

\* C10 as stated: the flat transcript equals the accepted trimmed texts
\* joined with single spaces.
C10_FlatIsJoin ==
    Returned => fmt_out[1].full = Join(Accepted(chunks_in))

\* C10 amended: the flat transcript equals the accepted trimmed texts joined
\* with single spaces and then trimmed, so accepted empty texts at the end of
\* the list add nothing; an empty list gives an empty flat transcript.
C10_FlatIsTrimmedJoin ==
    Returned =>
        /\ fmt_out[1].full = Strip(Join(Accepted(chunks_in)))
        /\ chunks_in = <<>> => fmt_out[1].full = <<>>

\* A list with a repeated chunk that ends in an accepted empty text has been
\* flattened to a non-empty transcript.
C10_Witness ==
    /\ Returned
    /\ Len(chunks_in) = 3
    /\ Len(Accepted(chunks_in)) = 2
    /\ Strip(chunks_in[3].text) = <<>>
    /\ fmt_out[1].full # <<>>

-----------------------------------------------------------------------------
(* Properties of remove_repeated_words *)

\* C8: applying remove_repeated_words to its own result changes nothing.
C8_Idempotent == Len(dd_out) = 2 => dd_out[2] = dd_out[1]

\* A string of three equal words has been cleaned twice.
C8_Witness ==
    /\ Len(dd_out) = 2
    /\ Len(Split(text_in)) = 3
    /\ Len(Split(dd_out[1])) = 1

\* The scan the claim describes: keep a token unless it equals the
\* immediately preceding kept token.
RECURSIVE KeptScan(_, _)
KeptScan(words, kept) ==
    IF words = <<>> THEN kept
    ELSE KeptScan(Tail(words),
                  IF kept # <<>> /\ Head(words) = kept[Len(kept)]
                  THEN kept
                  ELSE Append(kept, Head(words)))

\* C9: remove_repeated_words returns the tokens KeptScan keeps, joined with
\* single spaces.
C9_SameAsKeptScan ==
    dd_out # <<>> => dd_out[1] = Join(KeptScan(Split(text_in), <<>>))

\* A string with a run of three equal tokens has been cleaned.
C9_Witness ==
    /\ dd_out # <<>>
    /\ \E i \in 1..(Len(Split(text_in)) - 2) :
          /\ Split(text_in)[i] = Split(text_in)[i + 1]
          /\ Split(text_in)[i] = Split(text_in)[i + 2]

====
